---- MODULE Spec2Model ----
(***************************************************************************)
(* Model of docs/diagrams/high_level_architecture.py: a straight-line      *)
(* script that builds a matplotlib figure from literal arguments and saves *)
(* it to a fixed path.  Each statement of the script is one program point; *)
(* coordinates are scaled by 100 so that they are integers.  Text is a     *)
(* sequence of whitespace-separated words.                                 *)
(***************************************************************************)
EXTENDS Integers, Sequences, FiniteSets, TLC

VARIABLES status, pc, run, fig, ax, calls, err, fs, fs0, completed

vars == <<status, pc, run, fig, ax, calls, err, fs, fs0, completed>>

\* Number of executions of the script that are explored.
MaxRuns == 2

----------------------------------------------------------------------------
\* Statement constructors (one per kind of call in the script)

OutPath == "/home/ubuntu/diagrams/high_level_architecture.png"

HeadLength == 10

Rect(line, step, name, group, x, y, w, h, fc, ec, alpha, z) ==
    [op |-> "add_patch", line |-> line, step |-> step, name |-> name,
     group |-> group, x |-> x, y |-> y, w |-> w, h |-> h,
     facecolor |-> fc, edgecolor |-> ec, alpha |-> alpha, linewidth |-> 2,
     zorder |-> z]

Txt(line, step, x, y, s, size, weight) ==
    [op |-> "text", line |-> line, step |-> step, x |-> x, y |-> y, s |-> s,
     fontsize |-> size, fontweight |-> weight, ha |-> "center",
     va |-> "center"]

Arr(line, x, y, dx, dy, rel) ==
    [op |-> "arrow", line |-> line, step |-> 4, x |-> x, y |-> y,
     dx |-> dx, dy |-> dy, head_width |-> 10, head_length |-> HeadLength,
     fc |-> "black", ec |-> "black", zorder |-> 3, rel |-> rel]

Handle(fc, ec, label) == [facecolor |-> fc, edgecolor |-> ec, label |-> label]

legend_elements ==
    << Handle("#ffcccc", "#cc0000", <<"Core", "-", "Mirror">>),
       Handle("#ffffcc", "#cccc00", <<"Core", "-", "Synthesis">>),
       Handle("#ccffcc", "#00cc00", <<"Core", "-", "Bridge">>),
       Handle("#cce6ff", "#0066cc", <<"Supporting", "-", "Memory">>),
       Handle("#e6ccff", "#6600cc", <<"Supporting", "-", "Ritual">>),
       Handle("#e6e6e6", "#666666", <<"Supporting", "-", "Ethics">>) >>

\* The script, statement by statement, in source order.
Program ==
    << [op |-> "subplots", line |-> 6, step |-> 1, figsize |-> <<12, 10>>],
       [op |-> "set_facecolor", line |-> 9, step |-> 2, color |-> "#f5f5f5"],
       Rect(18, 2, "main_system", "container", 50, 50, 1100, 900,
            "#e6f2ff", "#0066cc", 20, 1),
       Txt(21, 2, 600, 920, <<"MeAi", "Companion", "System">>, 16, "bold"),
       Rect(33, 3, "mirror", "core", 100, 600, 300, 200,
            "#ffcccc", "#cc0000", 70, 2),
       Txt(34, 3, 250, 700, <<"Mirror">>, 14, "bold"),
       Txt(35, 3, 250, 650, <<"User", "Understanding">>, 10, "normal"),
       Rect(44, 3, "synthesis", "core", 450, 600, 300, 200,
            "#ffffcc", "#cccc00", 70, 2),
       Txt(45, 3, 600, 700, <<"Synthesis">>, 14, "bold"),
       Txt(46, 3, 600, 650, <<"State", "Management">>, 10, "normal"),
       Rect(55, 3, "bridge", "core", 800, 600, 300, 200,
            "#ccffcc", "#00cc00", 70, 2),
       Txt(56, 3, 950, 700, <<"Bridge">>, 14, "bold"),
       Txt(57, 3, 950, 650, <<"External", "Connections">>, 10, "normal"),
       Rect(67, 3, "memory", "supporting", 100, 350, 250, 150,
            "#cce6ff", "#0066cc", 70, 2),
       Txt(68, 3, 225, 425, <<"Memory", "System">>, 12, "bold"),
       Rect(77, 3, "ritual", "supporting", 400, 350, 250, 150,
            "#e6ccff", "#6600cc", 70, 2),
       Txt(78, 3, 525, 425, <<"Ritual", "Engine">>, 12, "bold"),
       Rect(87, 3, "mcp", "supporting", 700, 350, 250, 150,
            "#ffccff", "#cc00cc", 70, 2),
       Txt(88, 3, 825, 425, <<"MCP", "Client", "Interface">>, 12, "bold"),
       Rect(97, 3, "voice", "supporting", 100, 150, 250, 150,
            "#ffe6cc", "#cc6600", 70, 2),
       Txt(98, 3, 225, 225, <<"Voice", "Engine">>, 12, "bold"),
       Rect(107, 3, "breath", "supporting", 400, 150, 250, 150,
            "#ccffe6", "#00cc66", 70, 2),
       Txt(108, 3, 525, 225, <<"Breath", "System">>, 12, "bold"),
       Rect(117, 3, "ethics", "supporting", 700, 150, 250, 150,
            "#e6e6e6", "#666666", 70, 2),
       Txt(118, 3, 825, 225, <<"Ethics", "Engine">>, 12, "bold"),
       Arr(122, 400, 700, 40, 0, <<"mirror", "synthesis">>),
       Arr(123, 450, 680, -40, 0, <<"mirror", "synthesis">>),
       Arr(126, 750, 700, 40, 0, <<"synthesis", "bridge">>),
       Arr(127, 800, 680, -40, 0, <<"synthesis", "bridge">>),
       Arr(130, 250, 600, 0, -90, <<"mirror", "memory">>),
       Arr(131, 230, 510, 0, 90, <<"mirror", "memory">>),
       Arr(134, 525, 600, 0, -90, <<"synthesis", "ritual">>),
       Arr(137, 825, 600, 0, -90, <<"bridge", "mcp">>),
       Arr(140, 550, 600, -250, -350, <<"synthesis", "voice">>),
       Arr(143, 525, 600, 0, -290, <<"synthesis", "breath">>),
       Arr(146, 650, 600, 150, -350, <<"synthesis", "ethics">>),
       Arr(149, 825, 300, 0, 290, <<"ethics", "*">>),
       [op |-> "set_xticks", line |-> 152, step |-> 5, ticks |-> <<>>],
       [op |-> "set_yticks", line |-> 153, step |-> 5, ticks |-> <<>>],
       [op |-> "set_xlim", line |-> 154, step |-> 5, lo |-> 0, hi |-> 1200],
       [op |-> "set_ylim", line |-> 155, step |-> 5, lo |-> 0, hi |-> 1000],
       [op |-> "legend", line |-> 166, step |-> 6,
        handles |-> legend_elements, loc |-> "upper center",
        bbox_to_anchor |-> <<50, 45>>, fancybox |-> TRUE, shadow |-> TRUE,
        ncol |-> 2],
       [op |-> "title", line |-> 170, step |-> 7,
        s |-> <<"MeAi", "System", "Architecture">>, fontsize |-> 18,
        pad |-> 20],
       [op |-> "figtext", line |-> 171, step |-> 7, x |-> 50, y |-> 1,
        s |-> <<"High-level", "architecture", "showing", "core",
                "components", "and", "supporting", "systems">>,
        ha |-> "center", fontsize |-> 10],
       [op |-> "tight_layout", line |-> 175, step |-> 8],
       [op |-> "savefig", line |-> 176, step |-> 8, path |-> OutPath,
        dpi |-> 300, bbox_inches |-> "tight"] >>

NStmts == Len(Program)

----------------------------------------------------------------------------
\* Filesystem at the output path and the state of the plotting library

NoFile == [kind |-> "absent"]
Other == [kind |-> "other"]
Partial == [kind |-> "partial"]

NoFig == [open |-> FALSE]
NoAx == [exists |-> FALSE]

\* States of the target directory and of the file at OutPath: a file can
\* only exist in an existing directory.
FsStates(cur) ==
    { [dir |-> FALSE, dirWritable |-> FALSE, file |-> NoFile] } \cup
    { [dir |-> TRUE, dirWritable |-> w, file |-> f] :
        w \in BOOLEAN, f \in {NoFile, Other, cur} }

\* Statement i with its arguments evaluated.  Every argument is a literal,
\* so evaluation reads no state.
StmtPrior(i) ==
    IF Program[i].op = "title" /\ fs0.file # NoFile
    THEN [Program[i] EXCEPT !.s = <<"MeAi", "System", "Architecture", "(updated)">>]
    ELSE Program[i]

StmtNarrow(i) ==
    IF Program[i].op = "set_xlim" THEN [Program[i] EXCEPT !.hi = 1100]
    ELSE Program[i]

StmtLegendTypo(i) ==
    IF Program[i].op = "legend"
    THEN [Program[i] EXCEPT !.handles[5].edgecolor = "#0066cc"]
    ELSE Program[i]

Stmt(i) == Program[i]

\* Control falls through to the next statement: no branch, loop or retry.
AdvanceSkip(i) == IF i = 2 THEN 4 ELSE i + 1

Advance(i) == i + 1

\* ax.add_patch appends the patch to the axes' patch list.
AddPatchTwice(a, s) == [a EXCEPT !.patches = Append(Append(@, s), s)]

AddPatchTo(a, s) == [a EXCEPT !.patches = Append(@, s)]

\* The image savefig produces from the figure.
Render(f, a, s) ==
    [kind |-> "png", dpi |-> s.dpi, bbox_inches |-> s.bbox_inches,
     fig |-> f, ax |-> a]

\* open(path, "wb") inside savefig: the errno it fails with, "" if it opens.
OpenErrorMkdirs(f) == ""

OpenError(f) ==
    IF ~f.dir THEN "ENOENT"
    ELSE IF f.file = NoFile /\ ~f.dirWritable THEN "EACCES"
    ELSE ""

\* A successful write replaces whatever was at the path.
WriteKeep(old, img) == IF old = NoFile THEN img ELSE old

WriteNothing(old, img) == old

WritePNG(old, img) == img

\* No statement is inside try/except: an exception ends the process.
Swallowed(e) == [status |-> "running", pc |-> Advance(pc), err |-> e]

Unhandled(e) == [status |-> "error", pc |-> pc, err |-> e]

----------------------------------------------------------------------------
Init ==
    /\ status = "idle"
    /\ pc = 0
    /\ run = 0
    /\ fig = NoFig
    /\ ax = NoAx
    /\ calls = <<>>
    /\ err = ""
    /\ fs \in FsStates(Other)
    /\ fs0 = fs
    /\ completed = <<>>

At(o) == status = "running" /\ pc \in 1..NStmts /\ Stmt(pc).op = o

\* The statement at pc returned normally.
Returned(s) ==
    /\ calls' = Append(calls, s)
    /\ pc' = Advance(pc)
    /\ UNCHANGED <<status, run, err, fs0, completed>>

\* The interpreter is started on the script (imports, lines 1-3).
Start ==
    /\ status # "running"
    /\ run < MaxRuns
    /\ run' = run + 1
    /\ status' = "running"
    /\ pc' = 1
    /\ fig' = NoFig
    /\ ax' = NoAx
    /\ calls' = <<>>
    /\ err' = ""
    /\ fs0' = fs
    /\ UNCHANGED <<fs, completed>>

\* Between executions anything else may change the directory and the file.
Env ==
    /\ status # "running"
    /\ fs' \in FsStates(fs.file) \ {fs}
    /\ status' = "idle"
    /\ UNCHANGED <<pc, run, fig, ax, calls, err, fs0, completed>>

Subplots ==
    /\ At("subplots")
    /\ LET s == Stmt(pc) IN
        /\ fig' = [open |-> TRUE, figsize |-> s.figsize, texts |-> <<>>,
                   tight |-> FALSE]
        /\ ax' = [exists |-> TRUE, facecolor |-> "white", patches |-> <<>>,
                  texts |-> <<>>, arrows |-> <<>>, xticks |-> <<"auto">>,
                  yticks |-> <<"auto">>, xlim |-> <<>>, ylim |-> <<>>,
                  legend |-> <<>>, title |-> <<>>]
        /\ Returned(s)
    /\ UNCHANGED fs

SetFacecolor ==
    /\ At("set_facecolor")
    /\ LET s == Stmt(pc) IN
        /\ ax' = [ax EXCEPT !.facecolor = s.color]
        /\ Returned(s)
    /\ UNCHANGED <<fig, fs>>

AddPatch ==
    /\ At("add_patch")
    /\ LET s == Stmt(pc) IN
        /\ ax' = AddPatchTo(ax, s)
        /\ Returned(s)
    /\ UNCHANGED <<fig, fs>>

Text ==
    /\ At("text")
    /\ LET s == Stmt(pc) IN
        /\ ax' = [ax EXCEPT !.texts = Append(@, s)]
        /\ Returned(s)
    /\ UNCHANGED <<fig, fs>>

Arrow ==
    /\ At("arrow")
    /\ LET s == Stmt(pc) IN
        /\ ax' = [ax EXCEPT !.arrows = Append(@, s)]
        /\ Returned(s)
    /\ UNCHANGED <<fig, fs>>

SetXticks ==
    /\ At("set_xticks")
    /\ LET s == Stmt(pc) IN
        /\ ax' = [ax EXCEPT !.xticks = s.ticks]
        /\ Returned(s)
    /\ UNCHANGED <<fig, fs>>

SetYticks ==
    /\ At("set_yticks")
    /\ LET s == Stmt(pc) IN
        /\ ax' = [ax EXCEPT !.yticks = s.ticks]
        /\ Returned(s)
    /\ UNCHANGED <<fig, fs>>

SetXlim ==
    /\ At("set_xlim")
    /\ LET s == Stmt(pc) IN
        /\ ax' = [ax EXCEPT !.xlim = <<s.lo, s.hi>>]
        /\ Returned(s)
    /\ UNCHANGED <<fig, fs>>

SetYlim ==
    /\ At("set_ylim")
    /\ LET s == Stmt(pc) IN
        /\ ax' = [ax EXCEPT !.ylim = <<s.lo, s.hi>>]
        /\ Returned(s)
    /\ UNCHANGED <<fig, fs>>

Legend ==
    /\ At("legend")
    /\ LET s == Stmt(pc) IN
        /\ ax' = [ax EXCEPT !.legend = s.handles]
        /\ Returned(s)
    /\ UNCHANGED <<fig, fs>>

Title ==
    /\ At("title")
    /\ LET s == Stmt(pc) IN
        /\ ax' = [ax EXCEPT !.title = s.s]
        /\ Returned(s)
    /\ UNCHANGED <<fig, fs>>

Figtext ==
    /\ At("figtext")
    /\ LET s == Stmt(pc) IN
        /\ fig' = [fig EXCEPT !.texts = Append(@, s)]
        /\ Returned(s)
    /\ UNCHANGED <<ax, fs>>

TightLayout ==
    /\ At("tight_layout")
    /\ LET s == Stmt(pc) IN
        /\ fig' = [fig EXCEPT !.tight = TRUE]
        /\ Returned(s)
    /\ UNCHANGED <<ax, fs>>

\* savefig renders the figure, opens the path for writing and writes it.
Savefig ==
    /\ At("savefig")
    /\ OpenError(fs) = ""
    /\ LET s == Stmt(pc) IN
        /\ fs' = [fs EXCEPT !.file = WritePNG(@, Render(fig, ax, s))]
        /\ Returned(s)
    /\ UNCHANGED <<fig, ax>>

\* An exception leaves the script at the statement that raised it.
Raise(e) ==
    /\ status' = Unhandled(e).status
    /\ pc' = Unhandled(e).pc
    /\ err' = Unhandled(e).err
    /\ UNCHANGED <<run, fig, ax, calls, fs0, completed>>

\* plt.subplots raises when no backend can be initialised.
BackendUnavailable ==
    /\ At("subplots")
    /\ Raise("backend")
    /\ UNCHANGED fs

\* A drawing or layout call raises.
CallRaises ==
    /\ status = "running"
    /\ pc \in 1..NStmts
    /\ Stmt(pc).op \notin {"subplots", "savefig"}
    /\ Raise("call")
    /\ UNCHANGED fs

\* savefig cannot open the path: nothing is created.
SavefigOpenFails ==
    /\ At("savefig")
    /\ OpenError(fs) # ""
    /\ Raise(OpenError(fs))
    /\ UNCHANGED fs

\* savefig opened (and truncated) the file and the write failed.
SavefigWriteFails ==
    /\ At("savefig")
    /\ OpenError(fs) = ""
    /\ Raise("write")
    /\ fs' = [fs EXCEPT !.file = Partial]

\* End of file: the interpreter exits with status 0.
Exit ==
    /\ status = "running"
    /\ pc = NStmts + 1
    /\ status' = "done"
    /\ completed' = Append(completed,
                           [before |-> fs0.file, after |-> fs.file,
                            calls |-> calls])
    /\ UNCHANGED <<pc, run, fig, ax, calls, err, fs, fs0>>

RunStep ==
    \/ Subplots \/ SetFacecolor \/ AddPatch \/ Text \/ Arrow
    \/ SetXticks \/ SetYticks \/ SetXlim \/ SetYlim \/ Legend
    \/ Title \/ Figtext \/ TightLayout \/ Savefig
    \/ BackendUnavailable \/ CallRaises
    \/ SavefigOpenFails \/ SavefigWriteFails \/ Exit

Next == Start \/ Env \/ RunStep

Spec == Init /\ [][Next]_vars

\* The process is single-threaded and synchronous: a started run keeps going.
LiveSpec == Spec /\ WF_vars(RunStep)

Terminated == status \in {"done", "error"}

----------------------------------------------------------------------------
\* Geometry of what is drawn

Abs(n) == IF n < 0 THEN -n ELSE n

Sgn(n) == IF n < 0 THEN -1 ELSE IF n > 0 THEN 1 ELSE 0

ISqrt(n) == CHOOSE r \in 0..2200 : r * r <= n /\ n < (r + 1) * (r + 1)

\* Closed rectangle [x, x+w] x [y, y+h].
InRect(px, py, r) ==
    /\ r.x <= px /\ px <= r.x + r.w
    /\ r.y <= py /\ py <= r.y + r.h

\* ax.arrow(x, y, dx, dy): the shaft ends at (x+dx, y+dy); the head is not
\* included in the length, so the tip lies head_length further on.
ArrowEnd(a) == <<a.x + a.dx, a.y + a.dy>>

ArrowTip(a) ==
    LET len == ISqrt(a.dx * a.dx + a.dy * a.dy) IN
    << a.x + a.dx + Sgn(a.dx) * ((a.head_length * Abs(a.dx)) \div len),
       a.y + a.dy + Sgn(a.dy) * ((a.head_length * Abs(a.dy)) \div len) >>

PatchIdx == IF ax.exists THEN 1..Len(ax.patches) ELSE {}

ComponentIdx == {i \in PatchIdx : ax.patches[i].group # "container"}

ArrowIdx == IF ax.exists THEN 1..Len(ax.arrows) ELSE {}

\* Indices of the text labels anchored inside rectangle r.
LabelsIn(r) == {k \in 1..Len(ax.texts) : InRect(ax.texts[k].x, ax.texts[k].y, r)}

InView(px, py) ==
    /\ ax.xlim[1] <= px /\ px <= ax.xlim[2]
    /\ ax.ylim[1] <= py /\ py <= ax.ylim[2]

IsPrefix(u, v) == Len(u) <= Len(v) /\ SubSeq(v, 1, Len(u)) = u

----------------------------------------------------------------------------
C2_MissingDirectory ==
    (run > 0 /\ status # "idle" /\ ~fs0.dir)
        => /\ status # "done"
           /\ fs = fs0
           /\ ~fs.dir
           /\ fs.file = NoFile

C2_Witness == status = "error" /\ ~fs0.dir /\ err = "ENOENT" /\ fs = fs0

\* C3: runs are deterministic: the calls made so far in the current run are
\* the calls an earlier successful run made at the same positions, and any
\* two successful runs made the same calls and wrote the same output.
C3_Deterministic ==
    /\ \A i \in 1..Len(completed) :
         /\ Len(calls) <= Len(completed[i].calls)
         /\ \A k \in 1..Len(calls) : calls[k] = completed[i].calls[k]
    /\ \A i, j \in 1..Len(completed) :
         /\ completed[i].calls = completed[j].calls
         /\ completed[i].after = completed[j].after

C3_Witness ==
    /\ Len(completed) = 2
    /\ status = "done"
    /\ completed[1].before # completed[2].before
    /\ Len(calls) = NStmts

\* C4: what a successful run leaves at the output path is the rendered
\* image whatever was there before (nothing, other content, an earlier
\* image), so all successful runs leave the same file.
C4_Overwrite ==
    /\ \A i \in 1..Len(completed) :
         /\ completed[i].after.kind = "png"
         /\ completed[i].after =
              Render(completed[i].after.fig, completed[i].after.ax,
                     completed[i].calls[Len(completed[i].calls)])
         /\ \A j \in 1..Len(completed) : completed[j].after = completed[i].after
    /\ status = "done" => fs.file = completed[Len(completed)].after

C4_Witness ==
    /\ Len(completed) = 2
    /\ completed[1].before = Other
    /\ completed[2].before = NoFile
    /\ completed[1].after = completed[2].after

\* C5: the statements run once each in source order, so the eight steps run
\* once each in order; a successful run has run all of them, ending with the
\* file write; and the filesystem is not written during a run before the
\* file write.
C5_LinearOrder ==
    /\ [] ( /\ \A k \in 1..Len(calls) - 1 :
                 /\ calls[k].line < calls[k + 1].line
                 /\ calls[k].step <= calls[k + 1].step
                 /\ calls[k + 1].step <= calls[k].step + 1
            /\ Len(calls) > 0 => calls[1].step = 1
            /\ status = "done" =>
                 /\ Len(calls) = NStmts
                 /\ {calls[k].step : k \in 1..Len(calls)} = 1..8
                 /\ {calls[k].line : k \in 1..Len(calls)}
                      = {Program[k].line : k \in 1..NStmts}
                 /\ calls[Len(calls)].op = "savefig" )
    /\ [][ (status = "running" /\ fs' # fs) => Program[pc].op = "savefig" ]_vars

C5_Witness ==
    /\ status = "done"
    /\ Len(calls) = NStmts
    /\ calls[NStmts].step = 8
    /\ fs.file.kind = "png"
    /\ fs0.file = Other

\* C6: a failure ends the run at the statement that failed: the outcome is
\* the error outcome, nothing drawn or logged changes, a failure before the
\* file write leaves the filesystem alone, and within the same run no
\* statement executes afterwards.
C6_AbortOnFailure ==
    [][ /\ (err = "" /\ err' # "") =>
             /\ status = "running" /\ status' = "error"
             /\ pc' = pc /\ calls' = calls /\ fig' = fig /\ ax' = ax
             /\ run' = run
             /\ (Program[pc].op # "savefig" => fs' = fs)
        /\ (err # "" /\ run' = run) =>
             /\ status' \in {"error", "idle"}
             /\ pc' = pc /\ calls' = calls /\ fig' = fig /\ ax' = ax
             /\ err' = err
      ]_vars

C6_Witness ==
    /\ status = "error" /\ err = "call"
    /\ Program[pc].op = "arrow"
    /\ Len(calls) = pc - 1
    /\ fs = fs0

\* C7: a successful run has drawn exactly nine component rectangles, each
\* once: three core ones with two labels anchored inside, six supporting
\* ones with one label anchored inside, the first label being the name.
ComponentNames ==
    [mirror |-> <<"Mirror">>, synthesis |-> <<"Synthesis">>,
     bridge |-> <<"Bridge">>, memory |-> <<"Memory", "System">>,
     ritual |-> <<"Ritual", "Engine">>,
     mcp |-> <<"MCP", "Client", "Interface">>,
     voice |-> <<"Voice", "Engine">>, breath |-> <<"Breath", "System">>,
     ethics |-> <<"Ethics", "Engine">>]

CoreNames == {"mirror", "synthesis", "bridge"}

C7_NineComponents ==
    /\ \A i, j \in PatchIdx : ax.patches[i].name = ax.patches[j].name => i = j
    /\ status = "done" =>
         /\ Cardinality(ComponentIdx) = 9
         /\ {ax.patches[i].name : i \in ComponentIdx} = DOMAIN ComponentNames
         /\ \A i \in ComponentIdx :
              LET r == ax.patches[i]
                  ls == LabelsIn(r)
              IN /\ (r.group = "core") = (r.name \in CoreNames)
                 /\ r.group \in {"core", "supporting"}
                 /\ Cardinality(ls) = IF r.group = "core" THEN 2 ELSE 1
                 /\ \E k \in ls : /\ ax.texts[k].s = ComponentNames[r.name]
                                  /\ \A m \in ls : k <= m

C7_Witness ==
    /\ status = "done"
    /\ Cardinality(ComponentIdx) = 9
    /\ Len(ax.texts) = 13

\* C8: once the view bounds are set, every rectangle and every arrow (start,
\* shaft end and tip) lies within them.
C8_InsideView ==
    (ax.exists /\ ax.xlim # <<>> /\ ax.ylim # <<>>) =>
        /\ ax.xlim = <<0, 1200>> /\ ax.ylim = <<0, 1000>>
        /\ \A i \in PatchIdx :
             LET r == ax.patches[i] IN
             /\ InView(r.x, r.y)
             /\ InView(r.x + r.w, r.y + r.h)
        /\ \A k \in ArrowIdx :
             LET a == ax.arrows[k] IN
             /\ InView(a.x, a.y)
             /\ InView(ArrowEnd(a)[1], ArrowEnd(a)[2])
             /\ InView(ArrowTip(a)[1], ArrowTip(a)[2])

C8_Witness ==
    /\ ax.exists /\ ax.xlim # <<>> /\ ax.ylim # <<>>
    /\ Len(ax.patches) = 10
    /\ Len(ax.arrows) = 12

\* C9: every arrow drawn starts in or on one component rectangle and ends
\* (shaft end or tip) in or on a different one, the two being those named in
\* the comment above the call.
Touches(a, r1, r2) ==
    /\ InRect(a.x, a.y, r1)
    /\ \/ InRect(ArrowEnd(a)[1], ArrowEnd(a)[2], r2)
       \/ InRect(ArrowTip(a)[1], ArrowTip(a)[2], r2)

Named(a, r1, r2) ==
    IF a.rel[2] = "*" THEN a.rel[1] \in {r1.name, r2.name}
    ELSE {r1.name, r2.name} = {a.rel[1], a.rel[2]}

C9_ArrowsConnect ==
    \A k \in ArrowIdx :
        \E i, j \in ComponentIdx :
            /\ i # j
            /\ Touches(ax.arrows[k], ax.patches[i], ax.patches[j])
            /\ Named(ax.arrows[k], ax.patches[i], ax.patches[j])

\* C10: each of the six legend entries has the colour pair of exactly one
\* drawn component rectangle, is labelled with that component's kind and
\* name, and no two entries share a colour pair.
LegendKind(l) == l[1]

LegendName(l) == SubSeq(l, 3, Len(l))

KindWord(g) == IF g = "core" THEN "Core" ELSE "Supporting"

SameColours(e, r) == e.facecolor = r.facecolor /\ e.edgecolor = r.edgecolor

NameLabel(r) == ax.texts[CHOOSE k \in LabelsIn(r) : \A m \in LabelsIn(r) : k <= m].s

C10_LegendConsistent ==
    (ax.exists /\ ax.legend # <<>>) =>
        /\ Len(ax.legend) = 6
        /\ \A n \in 1..Len(ax.legend) :
             LET e == ax.legend[n]
                 m == {i \in ComponentIdx : SameColours(e, ax.patches[i])}
             IN /\ Cardinality(m) = 1
                /\ e.label[2] = "-"
                /\ \A i \in m :
                     /\ LegendKind(e.label) = KindWord(ax.patches[i].group)
                     /\ LegendName(e.label) # <<>>
                     /\ IsPrefix(LegendName(e.label), NameLabel(ax.patches[i]))
        /\ \A n, q \in 1..Len(ax.legend) :
             (/\ ax.legend[n].facecolor = ax.legend[q].facecolor
              /\ ax.legend[n].edgecolor = ax.legend[q].edgecolor) => n = q

C10_Witness ==
    /\ ax.exists
    /\ Len(ax.legend) = 6
    /\ Cardinality(ComponentIdx) = 9
====
